---- MODULE Spec2Model ----
(***************************************************************************)
(* StrataSleuth: the document-batching pipeline of services/geminiService. *)
(* The service file holds two versions of the pipeline (lines 1-333 and    *)
(* lines 336-648); `version` selects which one a run executes.             *)
(*                                                                         *)
(* A PDF is modelled by its page range: the base64 payload of a file is    *)
(* the record [doc, from, to] of the 0-indexed pages [from, to) of the     *)
(* uploaded document number doc.  An external call (PDFDocument.load,      *)
(* copyPages, save, generateContent) may succeed or reject.                *)
(***************************************************************************)
EXTENDS Integers, Sequences, FiniteSets, TLC

\* const MAX_PAGES_PER_BUCKET = 250
MAX_PAGES_PER_BUCKET == 250

\* Largest number of uploaded documents in one request.
MaxDocs == 3

PdfType == "application/pdf"
ImageType == "image/png"

Versions == {1, 2}

\* Page counts of the uploaded PDFs: small, exactly one bucket, between one
\* and two buckets, exactly two buckets, more than two buckets.
PageChoices ==
  {5, MAX_PAGES_PER_BUCKET, 400, 2 * MAX_PAGES_PER_BUCKET, 2 * MAX_PAGES_PER_BUCKET + 1}

None == "none"

VARIABLES
  version,            \* which analyzeProperty of the service file runs
  files,              \* analyzeProperty's argument: UploadedFile[]
  pc,                 \* position of analyzeProperty
  fileIdx,            \* for (const file of files): 1-based position
  splitPc,            \* position of splitLargePdf for files[fileIdx]
  totalPages,         \* splitLargePdf: pdfDoc.getPageCount()
  splitI,             \* splitLargePdf: loop variable i
  chunks,             \* splitLargePdf: chunks built so far
  splitResults,       \* what splitLargePdf returned, one entry per file
  allProcessedFiles,  \* allProcessedFiles / allFileChunks
  batches,            \* version 2: the batches array
  batchI,             \* batch loop position (0-based)
  partialReports,     \* partialReports / batchResults
  callLog,            \* every generateContent request issued, in order
  inFlight,           \* requests issued and not yet settled
  result,             \* value analyzeProperty resolved with
  error               \* error analyzeProperty rejected with

\* The handling of one model response in runAnalysisBatch / cleanJsonString.
\* A text is a sequence of one-character strings.
VARIABLES
  text,               \* runAnalysisBatch: response.text
  sanPc,              \* position inside runAnalysisBatch / cleanJsonString
  cleaned,            \* cleanJsonString: cleaned
  scanI,              \* forensicJsonSanitize: i
  inQuote,            \* forensicJsonSanitize: inQuote
  scanOut,            \* forensicJsonSanitize: result
  cleanLog,           \* every text handed to cleanJsonString
  parseLog,           \* every text handed to JSON.parse, in order
  parseError,         \* cleanJsonString: e of the first failed JSON.parse
  sanResult,          \* value runAnalysisBatch returned
  sanError            \* error runAnalysisBatch threw

\* The caller and the model around one analyzeProperty run.
VARIABLES
  persona,            \* profile.persona of the LifestyleProfile argument
  returned,           \* the object parsed from the response that resolved last
  abandoned           \* the caller has stopped waiting for the run

\* The state of the App component.
VARIABLES
  appFiles,           \* useState: files
  isAnalyzing,        \* useState: isAnalyzing
  results,            \* useState: results
  appError,           \* useState: error
  analyses,           \* analyzeProperty calls of the App that have not settled
  runs                \* analyzeProperty calls the App has started

sanVars == <<text, sanPc, cleaned, scanI, inQuote, scanOut, cleanLog, parseLog,
             parseError, sanResult, sanError>>

pipeVars == <<version, files, pc, fileIdx, splitPc, totalPages, splitI, chunks,
              splitResults, allProcessedFiles, batches, batchI, partialReports,
              callLog, inFlight, result, error, persona, returned, abandoned>>

appVars == <<appFiles, isAnalyzing, results, appError, analyses, runs>>

vars == <<pipeVars, sanVars, appVars>>

splitVars == <<fileIdx, splitPc, totalPages, splitI, chunks, splitResults,
               allProcessedFiles>>
callVars == <<batches, batchI, partialReports, callLog, inFlight>>

----------------------------------------------------------------------------
\* Helpers

Min(a, b) == IF a <= b THEN a ELSE b

\* Array.prototype.slice(s, e) on a sequence, 0-based, end exclusive, clipped.
slice(arr, s, e) == SubSeq(arr, s + 1, Min(e, Len(arr)))

\* interface UploadedFile { name; type; base64 } for the k-th uploaded document
UploadedFile(k, type, pages) ==
  [name |-> <<k>>, type |-> type, base64 |-> [doc |-> k, from |-> 0, to |-> pages]]

DocKinds ==
  {[type |-> ImageType, pages |-> 1]} \cup
  {[type |-> PdfType, pages |-> p] : p \in PageChoices}

\* pdfDoc.getPageCount() of a loaded file
getPageCount(file) == file.base64.to - file.base64.from

\* Number of pages a chunk sends to the model
PagesOf(file) == file.base64.to - file.base64.from

RECURSIVE PageSum(_)
PageSum(fs) == IF fs = <<>> THEN 0 ELSE PagesOf(Head(fs)) + PageSum(Tail(fs))

----------------------------------------------------------------------------
\* splitLargePdf

\* if (totalPages <= MAX_PAGES_PER_BUCKET) return [file];
NoSplitNeededOffByOne(n) == n < MAX_PAGES_PER_BUCKET
NoSplitNeeded(n) == n <= MAX_PAGES_PER_BUCKET

\* const end = Math.min(i + MAX_PAGES_PER_BUCKET, totalPages);
ChunkEndUnclamped(i, total) == i + MAX_PAGES_PER_BUCKET
ChunkEnd(i, total) == Min(i + MAX_PAGES_PER_BUCKET, total)

\* name of the chunk that starts at page i and ends before page end
ChunkNameNoSuffix(v, file, i, end) == file.name

ChunkName(v, file, i, end) ==
  IF v = 1
    THEN file.name \o <<"Part", (i \div MAX_PAGES_PER_BUCKET) + 1>>
    ELSE file.name \o <<"Pages", i + 1, end>>

\* chunks.push({ ...file, name: ..., base64 })
MakeChunk(v, file, i, end) ==
  [name |-> ChunkName(v, file, i, end),
   type |-> file.type,
   base64 |-> [doc |-> file.base64.doc, from |-> i, to |-> end]]

\* return <ret> from splitLargePdf, then allProcessedFiles.push(...split)
ReturnSplit(ret, how) ==
  /\ splitResults' = Append(splitResults, [chunks |-> ret, how |-> how])
  /\ allProcessedFiles' = allProcessedFiles \o ret
  /\ fileIdx' = fileIdx + 1
  /\ splitPc' = "idle"
  /\ totalPages' = 0
  /\ splitI' = 0
  /\ chunks' = <<>>
  /\ UNCHANGED <<pc, error>>

\* An exception inside splitLargePdf: version 1 catches it and returns
\* [file]; version 2 has no try/catch, so analyzeProperty rejects.
ThrowSplit ==
  IF version = 1
    THEN ReturnSplit(<<files[fileIdx]>>, "fallback")
    ELSE /\ pc' = "Failed"
         /\ error' = [kind |-> "SplitError", call |-> 0]
         /\ UNCHANGED splitVars

SplitStart ==
  /\ pc = "Splitting" /\ splitPc = "idle" /\ fileIdx <= Len(files)
  /\ IF files[fileIdx].type # PdfType
       THEN ReturnSplit(<<files[fileIdx]>>, "whole")
       ELSE /\ splitPc' = "loading"
            /\ UNCHANGED <<fileIdx, totalPages, splitI, chunks, splitResults,
                           allProcessedFiles, pc, error>>
  /\ UNCHANGED <<version, files, result>> /\ UNCHANGED callVars
  /\ UNCHANGED <<persona, returned, abandoned>>
  /\ UNCHANGED <<sanVars, appVars>>

\* await PDFDocument.load(originalBytes) resolves
SplitLoadOk ==
  /\ pc = "Splitting" /\ splitPc = "loading"
  /\ LET n == getPageCount(files[fileIdx]) IN
     IF NoSplitNeeded(n)
       THEN ReturnSplit(<<files[fileIdx]>>, "whole")
       ELSE /\ splitPc' = "loop"
            /\ totalPages' = n
            /\ splitI' = 0
            /\ chunks' = <<>>
            /\ UNCHANGED <<fileIdx, splitResults, allProcessedFiles, pc, error>>
  /\ UNCHANGED <<version, files, result>> /\ UNCHANGED callVars
  /\ UNCHANGED <<persona, returned, abandoned>>
  /\ UNCHANGED <<sanVars, appVars>>

\* atob / PDFDocument.load throws (corrupt or encrypted data)
SplitLoadFail ==
  /\ pc = "Splitting" /\ splitPc = "loading"
  /\ ThrowSplit
  /\ UNCHANGED <<version, files, result>> /\ UNCHANGED callVars
  /\ UNCHANGED <<persona, returned, abandoned>>
  /\ UNCHANGED <<sanVars, appVars>>

\* one iteration of the for loop: create, copyPages, addPage, save, push
SplitCopyOk ==
  /\ pc = "Splitting" /\ splitPc = "loop" /\ splitI < totalPages
  /\ LET end == ChunkEnd(splitI, totalPages) IN
       chunks' = Append(chunks, MakeChunk(version, files[fileIdx], splitI, end))
  /\ splitI' = splitI + MAX_PAGES_PER_BUCKET
  /\ UNCHANGED <<fileIdx, splitPc, totalPages, splitResults, allProcessedFiles>>
  /\ UNCHANGED <<version, files, pc, result, error>> /\ UNCHANGED callVars
  /\ UNCHANGED <<persona, returned, abandoned>>
  /\ UNCHANGED <<sanVars, appVars>>

\* create / copyPages / save throws inside the loop
SplitCopyFail ==
  /\ pc = "Splitting" /\ splitPc = "loop" /\ splitI < totalPages
  /\ ThrowSplit
  /\ UNCHANGED <<version, files, result>> /\ UNCHANGED callVars
  /\ UNCHANGED <<persona, returned, abandoned>>
  /\ UNCHANGED <<sanVars, appVars>>

\* loop exit: return chunks
SplitLoopReturn ==
  /\ pc = "Splitting" /\ splitPc = "loop" /\ splitI >= totalPages
  /\ ReturnSplit(chunks, "split")
  /\ UNCHANGED <<version, files, result>> /\ UNCHANGED callVars
  /\ UNCHANGED <<persona, returned, abandoned>>
  /\ UNCHANGED <<sanVars, appVars>>

\* for (const file of files) has no file left
FilesExhaustedAfterFirst == fileIdx > 1
FilesExhausted == fileIdx > Len(files)

\* for (const file of files) is exhausted
SplitAllDone ==
  /\ pc = "Splitting" /\ splitPc = "idle" /\ FilesExhausted
  /\ pc' = "Planning"
  /\ UNCHANGED <<version, files, result, error>>
  /\ UNCHANGED splitVars /\ UNCHANGED callVars
  /\ UNCHANGED <<persona, returned, abandoned>>
  /\ UNCHANGED <<sanVars, appVars>>

----------------------------------------------------------------------------
\* runAnalysisBatch: one generateContent request

NoError == [kind |-> None, call |-> 0]
NoResult == [call |-> 0]

\* The ways one runAnalysisBatch call rejects: generateContent rejects, the
\* text is empty, cleanJsonString / JSON.parse throws.
FailureKinds == {"TransportError", "EmptyResponse", "MalformedJson"}

\* runAnalysisBatch(ai, files, profileDescription, isSynthesis, previousResults)
Request(batch, isSynthesis, previousResults) ==
  [isSynthesis |-> isSynthesis, files |-> batch, previousResults |-> previousResults]

\* the AnalysisResult parsed from the response to request number c
ReportOf(c) == [call |-> c]

\* const profileDescription = JSON.stringify(profile); of the profile the
\* persona is the field that is followed here
profileDescription == persona

\* files.map(file => ({ inlineData: { data: file.base64, mimeType: ... } }))
fileParts(batch) ==
  [k \in 1..Len(batch) |->
     [inlineData |-> [data |-> batch[k].base64,
                      mimeType |-> IF batch[k].type = "" THEN PdfType
                                   ELSE batch[k].type]]]

\* The prompt template: the synthesis prompt embeds JSON.stringify(previousResults),
\* the extraction prompt embeds profileDescription. The fixed wording of a
\* template is its task name.
PromptNoData(req, description) ==
  IF req.isSynthesis
    THEN [task |-> "SYNTHESIS TASK", profile |-> None, data |-> <<>>]
    ELSE [task |-> "Conduct", profile |-> description, data |-> <<>>]
Prompt(req, description) ==
  IF req.isSynthesis
    THEN [task |-> "SYNTHESIS TASK", profile |-> None, data |-> req.previousResults]
    ELSE [task |-> "Conduct", profile |-> description, data |-> <<>>]

\* contents.parts: isSynthesis ? [{ text: prompt }] : [...fileParts, { text: prompt }]
Parts(req, description) ==
  IF req.isSynthesis
    THEN <<[text |-> Prompt(req, description)]>>
    ELSE fileParts(req.files) \o <<[text |-> Prompt(req, description)]>>

\* await ai.models.generateContent(...) is entered
IssueCall(req) ==
  /\ callLog' = Append(callLog, req)
  /\ inFlight' = inFlight \cup {Len(callLog) + 1}

----------------------------------------------------------------------------
\* analyzeProperty

\* if (allProcessedFiles.length > 2)
NeedsBatchingFromTwo(n) == n > 1
NeedsBatching(n) == n > 2

\* allProcessedFiles.slice(i, i + 2)
BatchAtOneWide(all, i) == slice(all, i, i + 1)
BatchAt(all, i) == slice(all, i, i + 2)

\* i += 2
NextBatchStart(i) == i + 2

\* version 2: for (let i = 0; i < allFileChunks.length; i += 2) batches.push(...)
RECURSIVE BatchesFrom(_, _)
BatchesFrom(all, i) ==
  IF i < Len(all)
    THEN <<BatchAt(all, i)>> \o BatchesFrom(all, NextBatchStart(i))
    ELSE <<>>

\* The loop body runs again only after `await runAnalysisBatch` has resumed.
ReadyToIssueNoAwait == pc \in {"Loop", "AwaitBatch"}
ReadyToIssue == pc = "Loop"

\* A rejected await is not caught in analyzeProperty: the run rejects.
AfterRejectionSwallowed(p) == IF p = "AwaitBatch" THEN "Loop" ELSE "Failed"
AfterRejection(p) == "Failed"

\* version 1: the if branch is taken, partialReports = []
StartBatchLoopV1 ==
  /\ pc = "Planning" /\ version = 1
  /\ NeedsBatching(Len(allProcessedFiles))
  /\ pc' = "Loop"
  /\ batchI' = 0
  /\ partialReports' = <<>>
  /\ UNCHANGED <<version, files, result, error, batches, callLog, inFlight>>
  /\ UNCHANGED splitVars
  /\ UNCHANGED <<persona, returned, abandoned>>
  /\ UNCHANGED <<sanVars, appVars>>

\* version 1: the else branch, runAnalysisBatch(ai, allProcessedFiles, ...)
IssueSingleV1 ==
  /\ pc = "Planning" /\ version = 1
  /\ ~NeedsBatching(Len(allProcessedFiles))
  /\ IssueCall(Request(allProcessedFiles, FALSE, <<>>))
  /\ pc' = "AwaitFinal"
  /\ UNCHANGED <<version, files, result, error, batches, batchI, partialReports>>
  /\ UNCHANGED splitVars
  /\ UNCHANGED <<persona, returned, abandoned>>
  /\ UNCHANGED <<sanVars, appVars>>

\* version 2: build the batches array
PlanBatchesV2 ==
  /\ pc = "Planning" /\ version = 2
  /\ batches' = BatchesFrom(allProcessedFiles, 0)
  /\ batchI' = 0
  /\ pc' = "Loop"
  /\ UNCHANGED <<version, files, result, error, partialReports, callLog, inFlight>>
  /\ UNCHANGED splitVars
  /\ UNCHANGED <<persona, returned, abandoned>>
  /\ UNCHANGED <<sanVars, appVars>>

\* The optional sections of the report schema that depend on the persona.
PersonaSections == {"rentVsBuy", "investorWealth"}
Personas == {"occupier", "investor"}

\* What a response may hold: the section of one persona or of the other
\* (the model is told which one to write, and is free not to comply).
PopulatedChoices == {{"rentVsBuy"}, {"investorWealth"}}

\* JSON.parse of the response text: the object holds whatever sections the
\* model wrote; no code adds or removes a section afterwards.
Response(c, populated) == [call |-> c, sections |-> populated]
NoResponse == Response(0, {})

\* loop body: runAnalysisBatch(ai, batch, profileDescription) is called
IssueBatch ==
  /\ ReadyToIssue
  /\ IF version = 1
       THEN /\ batchI < Len(allProcessedFiles)
            /\ IssueCall(Request(BatchAt(allProcessedFiles, batchI), FALSE, <<>>))
       ELSE /\ batchI < Len(batches)
            /\ IssueCall(Request(batches[batchI + 1], FALSE, <<>>))
  /\ pc' = "AwaitBatch"
  /\ UNCHANGED <<version, files, result, error, batches, batchI, partialReports>>
  /\ UNCHANGED splitVars
  /\ UNCHANGED <<persona, returned, abandoned>>
  /\ UNCHANGED <<sanVars, appVars>>

\* the awaited call resolves: partialReports.push(res), next iteration
BatchReturns ==
  /\ pc = "AwaitBatch"
  /\ \E c \in inFlight :
       /\ partialReports' = Append(partialReports, ReportOf(c))
       /\ inFlight' = inFlight \ {c}
       /\ \E populated \in PopulatedChoices :
            returned' = Response(c, populated)
  /\ batchI' = IF version = 1 THEN NextBatchStart(batchI) ELSE batchI + 1
  /\ pc' = "Loop"
  /\ UNCHANGED <<version, files, result, error, batches, callLog>>
  /\ UNCHANGED splitVars
  /\ UNCHANGED <<persona, abandoned>>
  /\ UNCHANGED <<sanVars, appVars>>

\* version 1, after the loop: runAnalysisBatch(ai, [], ..., true, partialReports)
SynthesizeV1 ==
  /\ pc = "Loop" /\ version = 1
  /\ batchI >= Len(allProcessedFiles)
  /\ IssueCall(Request(<<>>, TRUE, partialReports))
  /\ pc' = "AwaitFinal"
  /\ UNCHANGED <<version, files, result, error, batches, batchI, partialReports>>
  /\ UNCHANGED splitVars
  /\ UNCHANGED <<persona, returned, abandoned>>
  /\ UNCHANGED <<sanVars, appVars>>

\* version 2, after the loop: throw on 0 results, return the only result,
\* or call the synthesis
FinishV2 ==
  /\ pc = "Loop" /\ version = 2
  /\ batchI >= Len(batches)
  /\ IF Len(partialReports) = 0
       THEN /\ pc' = "Failed"
            /\ error' = [kind |-> "NoAnalysisData", call |-> 0]
            /\ UNCHANGED <<result, callLog, inFlight>>
       ELSE IF Len(partialReports) = 1
         THEN /\ pc' = "Done"
              /\ result' = partialReports[1]
              /\ UNCHANGED <<error, callLog, inFlight>>
         ELSE /\ IssueCall(Request(<<>>, TRUE, partialReports))
              /\ pc' = "AwaitFinal"
              /\ UNCHANGED <<result, error>>
  /\ UNCHANGED <<version, files, batches, batchI, partialReports>>
  /\ UNCHANGED splitVars
  /\ UNCHANGED <<persona, returned, abandoned>>
  /\ UNCHANGED <<sanVars, appVars>>

\* return await runAnalysisBatch(...) resolves
FinalReturns ==
  /\ pc = "AwaitFinal"
  /\ \E c \in inFlight :
       /\ result' = ReportOf(c)
       /\ inFlight' = inFlight \ {c}
       /\ \E populated \in PopulatedChoices :
            returned' = Response(c, populated)
  /\ pc' = "Done"
  /\ UNCHANGED <<version, files, error, batches, batchI, partialReports, callLog>>
  /\ UNCHANGED splitVars
  /\ UNCHANGED <<persona, abandoned>>
  /\ UNCHANGED <<sanVars, appVars>>

\* The caller stops waiting for the promise of analyzeProperty. The function
\* takes no signal and reads no flag, so nothing of the run changes.
Abandon ==
  /\ pc \notin {"Done", "Failed"}
  /\ ~abandoned
  /\ abandoned' = TRUE
  /\ UNCHANGED <<version, files, pc, result, error, batches, batchI, partialReports,
                 callLog, inFlight, persona, returned>>
  /\ UNCHANGED splitVars
  /\ UNCHANGED <<sanVars, appVars>>

\* an awaited runAnalysisBatch rejects
CallRejects ==
  /\ pc \in {"AwaitBatch", "AwaitFinal"}
  /\ \E c \in inFlight, kind \in FailureKinds :
       /\ error' = [kind |-> kind, call |-> c]
       /\ inFlight' = inFlight \ {c}
  /\ pc' = AfterRejection(pc)
  /\ UNCHANGED <<version, files, result, batches, batchI, partialReports, callLog>>
  /\ UNCHANGED splitVars
  /\ UNCHANGED <<persona, returned, abandoned>>
  /\ UNCHANGED <<sanVars, appVars>>

----------------------------------------------------------------------------
\* Texts: a string is a sequence of one-character strings, indexed from 0
\* as in the source (At(s, i) is s[i]).

Digits == {"0", "1", "2", "3", "4", "5", "6", "7", "8", "9"}

\* \s, as far as the texts of the model go
Whitespace == {" "}

\* [a-zA-Z0-9_], as far as the texts of the model go
WordChars == {"a", "b", "e", "E", "j", "s", "o", "n", "x", "_"} \cup Digits

At(s, i) == s[i + 1]

Max(a, b) == IF a >= b THEN a ELSE b

\* String.prototype.substring(a, b): clamped to [0, length], swapped if a > b
substring(s, a, b) ==
  LET ca == Max(0, Min(a, Len(s)))
      cb == Max(0, Min(b, Len(s)))
  IN SubSeq(s, Min(ca, cb) + 1, Max(ca, cb))

\* s.substring(i)

StartsWith(s, pat) == Len(s) >= Len(pat) /\ SubSeq(s, 1, Len(pat)) = pat

\* s.replace(/pat/g, "") for a literal pattern
RECURSIVE RemoveAll(_, _)
RemoveAll(s, pat) ==
  IF Len(s) < Len(pat) THEN s
  ELSE IF StartsWith(s, pat) THEN RemoveAll(SubSeq(s, Len(pat) + 1, Len(s)), pat)
  ELSE <<Head(s)>> \o RemoveAll(Tail(s), pat)

RECURSIVE TrimStart(_)
TrimStart(s) ==
  IF s # <<>> /\ Head(s) \in Whitespace THEN TrimStart(Tail(s)) ELSE s

RECURSIVE TrimEnd(_)
TrimEnd(s) ==
  IF s # <<>> /\ s[Len(s)] \in Whitespace THEN TrimEnd(SubSeq(s, 1, Len(s) - 1)) ELSE s

\* String.prototype.trim
trim(s) == TrimEnd(TrimStart(s))

\* String.prototype.indexOf(c): -1 when c does not occur
indexOf(s, c) ==
  IF \E k \in 1..Len(s) : s[k] = c
    THEN (CHOOSE k \in 1..Len(s) : s[k] = c /\ \A m \in 1..(k - 1) : s[m] # c) - 1
    ELSE -1

\* String.prototype.lastIndexOf(c)
lastIndexOf(s, c) ==
  IF \E k \in 1..Len(s) : s[k] = c
    THEN (CHOOSE k \in 1..Len(s) : s[k] = c /\ \A m \in (k + 1)..Len(s) : s[m] # c) - 1
    ELSE -1

\* the grave accent U+0060, which a string of this module cannot hold
Backtick == "U+0060"
Fence == <<Backtick, Backtick, Backtick>>
FenceJson == Fence \o <<"j", "s", "o", "n">>

\* rawString.replace(/<fence>json/g, "").replace(/<fence>/g, "").trim()
StripFences(rawString) == trim(RemoveAll(RemoveAll(rawString, FenceJson), Fence))

\* cleanJsonString, step 1: [found, text].  Version 1 throws when a brace
\* is missing; version 2 then keeps the whole stripped text.
IsolateJson(v, rawString) ==
  LET stripped == StripFences(rawString)
      start == indexOf(stripped, "{")
      end == lastIndexOf(stripped, "}")
  IN IF start # -1 /\ end # -1
       THEN [found |-> TRUE, text |-> substring(stripped, start, end + 1)]
       ELSE [found |-> (v = 2), text |-> stripped]

----------------------------------------------------------------------------
\* Numbers.  A number is [neg, mant, exp]: (-1)^neg * mant * 10^exp, where
\* mant is a string of decimal digits with no leading and no trailing zero
\* (the empty string for 0, with exp 0), or an infinity.  The arithmetic is
\* exact decimal arithmetic; on the literals of Fragments it gives the
\* results of IEEE doubles.

\* Number.MAX_VALUE is about 1.8 * 10^308 and Number.MIN_VALUE about
\* 4.9 * 10^-324: the exponents k of the finite, non-zero doubles
\* d.ddd * 10^k
MaxDecimalExponent == 308
MinDecimalExponent == -324

Infinity(neg) == [neg |-> neg, mant |-> <<>>, exp |-> 999999]
IsInfinite(num) == num.exp = 999999
Zero(neg) == [neg |-> neg, mant |-> <<>>, exp |-> 0]
IsZero(num) == num.mant = <<>> /\ ~IsInfinite(num)

DigitVal(c) ==
  CASE c = "0" -> 0 [] c = "1" -> 1 [] c = "2" -> 2 [] c = "3" -> 3
    [] c = "4" -> 4 [] c = "5" -> 5 [] c = "6" -> 6 [] c = "7" -> 7
    [] c = "8" -> 8 [] c = "9" -> 9
DigitChar(d) == CHOOSE c \in Digits : DigitVal(c) = d

\* the decimal digits of a natural number
RECURSIVE DigitsOf(_)
DigitsOf(m) ==
  IF m < 10 THEN <<DigitChar(m)>> ELSE DigitsOf(m \div 10) \o <<DigitChar(m % 10)>>

RECURSIVE StripLeadingZeros(_)
StripLeadingZeros(ds) ==
  IF ds # <<>> /\ ds[1] = "0" THEN StripLeadingZeros(Tail(ds)) ELSE ds

RECURSIVE TrailingZeros(_)
TrailingZeros(ds) ==
  IF ds # <<>> /\ ds[Len(ds)] = "0"
    THEN 1 + TrailingZeros(SubSeq(ds, 1, Len(ds) - 1)) ELSE 0

\* the natural number written by a digit string; a string of more than 6
\* significant digits only occurs as an exponent, where any such value is
\* beyond the range of the doubles
RECURSIVE NatOf(_)
NatOf(ds) ==
  IF Len(StripLeadingZeros(ds)) > 6 THEN 999999
  ELSE IF ds = <<>> THEN 0
  ELSE 10 * NatOf(SubSeq(ds, 1, Len(ds) - 1)) + DigitVal(ds[Len(ds)])

\* the number (-1)^neg * ds * 10^exp for any digit string ds
Normalize(neg, ds, exp) ==
  LET lead == StripLeadingZeros(ds)
      tz == TrailingZeros(lead)
  IN IF lead = <<>> THEN Zero(neg)
     ELSE [neg |-> neg, mant |-> SubSeq(lead, 1, Len(lead) - tz), exp |-> exp + tz]

\* the exponent k of |num| = d.ddd * 10^k
DecimalExponent(num) == Len(num.mant) + num.exp - 1

\* a double overflows to an infinity and underflows to zero
ToDouble(num) ==
  IF IsZero(num) \/ IsInfinite(num) THEN num
  ELSE IF DecimalExponent(num) > MaxDecimalExponent THEN Infinity(num.neg)
  ELSE IF DecimalExponent(num) < MinDecimalExponent THEN Zero(num.neg)
  ELSE num

\* the length of the run of digits of s that starts at index i
RECURSIVE DigitRun(_, _)
DigitRun(s, i) ==
  IF i < Len(s) /\ At(s, i) \in Digits THEN 1 + DigitRun(s, i + 1) ELSE 0

\* the lengths of the optional parts of /^-?\d+(\.\d+)?([eE][+-]?\d+)?/
\* at index i: the sign, the fraction with its point, the sign of the
\* exponent, the exponent with its marker and sign
SignLen(s, i) == IF i < Len(s) /\ At(s, i) = "-" THEN 1 ELSE 0
FracLen(s, i) ==
  IF i < Len(s) /\ At(s, i) = "." /\ DigitRun(s, i + 1) > 0
    THEN 1 + DigitRun(s, i + 1) ELSE 0
ExpSignLen(s, i) == IF i < Len(s) /\ At(s, i) \in {"+", "-"} THEN 1 ELSE 0
ExpLen(s, i) ==
  IF i < Len(s) /\ At(s, i) \in {"e", "E"} /\ DigitRun(s, i + 1 + ExpSignLen(s, i + 1)) > 0
    THEN 1 + ExpSignLen(s, i + 1) + DigitRun(s, i + 1 + ExpSignLen(s, i + 1))
    ELSE 0

\* the match whose parts have the given lengths
MatchOf(s, i, signLen, intLen, fracLen, expLen) ==
  IF intLen = 0 THEN [len |-> 0]
  ELSE [len |-> signLen + intLen + fracLen + expLen,
        neg |-> signLen = 1,
        int |-> SubSeq(s, i + signLen + 1, i + signLen + intLen),
        frac |-> SubSeq(s, i + signLen + intLen + 2, i + signLen + intLen + fracLen),
        eNeg |-> expLen > 0 /\ At(s, i + signLen + intLen + fracLen + 1) = "-",
        eDigits |-> SubSeq(s, i + signLen + intLen + fracLen + 2
                                + ExpSignLen(s, i + signLen + intLen + fracLen + 1),
                           i + signLen + intLen + fracLen + expLen)]
MatchExp(s, i, signLen, intLen, fracLen) ==
  MatchOf(s, i, signLen, intLen, fracLen, ExpLen(s, i + signLen + intLen + fracLen))
MatchFrac(s, i, signLen, intLen) ==
  MatchExp(s, i, signLen, intLen, FracLen(s, i + signLen + intLen))
MatchInt(s, i, signLen) == MatchFrac(s, i, signLen, DigitRun(s, i + signLen))

\* remaining.match(/^-?\d+(\.\d+)?([eE][+-]?\d+)?/): the pieces of the match
\* at index i, len = 0 when there is none
NumMatch(s, i) == MatchInt(s, i, SignLen(s, i))

\* parseFloat(rawNum) of a matched literal
parseFloat(m) ==
  LET e == IF m.eNeg THEN 0 - NatOf(m.eDigits) ELSE NatOf(m.eDigits)
  IN ToDouble(Normalize(m.neg, m.int \o m.frac, e - Len(m.frac)))

\* a digit string plus one
RECURSIVE Increment(_)
Increment(ds) ==
  IF ds = <<>> THEN <<"1">>
  ELSE LET front == SubSeq(ds, 1, Len(ds) - 1)
           last == DigitVal(ds[Len(ds)])
       IN IF last < 9 THEN front \o <<DigitChar(last + 1)>>
          ELSE Increment(front) \o <<"0">>

\* Math.round: the fraction 0.dropped (dropped has no trailing zero) moves
\* the magnitude up from half on for a positive number, and only beyond
\* half for a negative one (a tie goes towards +Infinity)
RoundsUp(neg, dropped) ==
  /\ dropped # <<>>
  /\ IF neg THEN DigitVal(dropped[1]) > 5 \/ (dropped[1] = "5" /\ Len(dropped) > 1)
            ELSE DigitVal(dropped[1]) >= 5

\* Math.round(num * 10000) / 10000
Round4(num) ==
  LET scaled == ToDouble([neg |-> num.neg, mant |-> num.mant, exp |-> num.exp + 4])
      k == 0 - scaled.exp
      n == Len(num.mant)
      kept == IF k >= n THEN <<>> ELSE SubSeq(num.mant, 1, n - k)
      dropped == IF k > n THEN <<"0">> \o num.mant
                 ELSE SubSeq(num.mant, n - k + 1, n)
  IN IF IsZero(num) \/ IsInfinite(scaled) THEN scaled
     ELSE IF scaled.exp >= 0 THEN num
     ELSE Normalize(num.neg,
                    IF RoundsUp(num.neg, dropped) THEN Increment(kept) ELSE kept,
                    -4)

Zeros(n) == [k \in 1..n |-> "0"]

\* Number.prototype.toString(): plain decimal when 10^-7 <= |x| < 10^21,
\* exponent notation otherwise; -0 is written 0
NumberToString(num) ==
  IF IsInfinite(num)
    THEN (IF num.neg THEN <<"-">> ELSE <<>>) \o <<"I", "n", "f", "i", "n", "i", "t", "y">>
  ELSE IF IsZero(num) THEN <<"0">>
  ELSE
    LET ds == num.mant
        k == Len(ds)
        n == k + num.exp
        sign == IF num.neg THEN <<"-">> ELSE <<>>
        e == n - 1
        expDigits == DigitsOf(IF e < 0 THEN 0 - e ELSE e)
    IN sign \o
       (IF k <= n /\ n <= 21 THEN ds \o Zeros(n - k)
        ELSE IF 0 < n /\ n <= 21 THEN SubSeq(ds, 1, n) \o <<".">> \o SubSeq(ds, n + 1, k)
        ELSE IF -6 < n /\ n <= 0 THEN <<"0", ".">> \o Zeros(0 - n) \o ds
        ELSE <<ds[1]>> \o (IF k > 1 THEN <<".">> \o SubSeq(ds, 2, k) ELSE <<>>)
             \o <<"e", (IF e < 0 THEN "-" ELSE "+")>> \o expDigits)

\* the text forensicJsonSanitize writes for the literal matched by m
RoundedLiteral(m) ==
  LET num == parseFloat(m)
  IN IF ~IsInfinite(num) THEN NumberToString(Round4(num)) ELSE <<"0">>

----------------------------------------------------------------------------
\* forensicJsonSanitize

ScanStart == [i |-> 0, inQuote |-> FALSE, result |-> <<>>]

\* while (j < jsonString.length && /\s/.test(jsonString[j])) j++
RECURSIVE SkipWhitespace(_, _)
SkipWhitespace(s, j) ==
  IF j < Len(s) /\ At(s, j) \in Whitespace THEN SkipWhitespace(s, j + 1) ELSE j

\* char === '"' && (i === 0 || jsonString[i-1] !== '\\')
TogglesQuote(s, i) == At(s, i) = "\"" /\ (i = 0 \/ At(s, i - 1) # "\\")

CloserStepStuck(s, st) ==
  [i |-> st.i, inQuote |-> st.inQuote, result |-> st.result \o <<At(s, st.i)>>]

\* the closer branch: copy the closer, skip whitespace, inject a comma
\* before an opener
CloserStep(s, st) ==
  LET j == SkipWhitespace(s, st.i + 1)
  IN [i |-> j, inQuote |-> st.inQuote,
      result |-> st.result \o <<At(s, st.i)>> \o
                 (IF j < Len(s) /\ At(s, j) \in {"{", "["} THEN <<",">> ELSE <<>>)]

\* one iteration of the while loop, for a state st = [i, inQuote, result]
\* with st.i < jsonString.length
ScanStep(s, st) ==
  LET char == At(s, st.i)
      m == NumMatch(s, st.i)
  IN IF TogglesQuote(s, st.i)
       THEN [i |-> st.i + 1, inQuote |-> ~st.inQuote, result |-> st.result \o <<char>>]
     ELSE IF ~st.inQuote /\ char \in {"}", "]"}
       THEN CloserStep(s, st)
     ELSE IF ~st.inQuote /\ m.len > 0
       THEN [i |-> st.i + m.len, inQuote |-> st.inQuote,
             result |-> st.result \o RoundedLiteral(m)]
     ELSE [i |-> st.i + 1, inQuote |-> st.inQuote, result |-> st.result \o <<char>>]

RECURSIVE ScanFrom(_, _)
ScanFrom(s, st) == IF st.i < Len(s) THEN ScanFrom(s, ScanStep(s, st)) ELSE st.result

forensicJsonSanitize(jsonString) == ScanFrom(jsonString, ScanStart)

----------------------------------------------------------------------------
\* JSON.parse.  The text is cut into tokens (a punctuation character, a
\* string <<"str", content>> or a number <<"num", value>>) and the tokens
\* are checked against the JSON grammar.  The texts of the model hold no
\* true, false or null, and no \u escape.

JsonPunct == {"{", "}", "[", "]", ",", ":"}
EscapeChars == {"\"", "\\", "/", "b", "f", "n", "r", "t"}

\* index of the quote that closes the string whose content starts at i,
\* -1 when the string is not closed or holds a bad escape
RECURSIVE StringEnd(_, _)
StringEnd(s, i) ==
  IF i >= Len(s) THEN -1
  ELSE IF At(s, i) = "\"" THEN i
  ELSE IF At(s, i) = "\\"
    THEN (IF i + 1 < Len(s) /\ At(s, i + 1) \in EscapeChars THEN StringEnd(s, i + 2) ELSE -1)
  ELSE StringEnd(s, i + 1)

\* a JSON number has no leading zero in its integer part
JsonNumberOk(m) == m.len > 0 /\ (Len(m.int) = 1 \/ m.int[1] # "0")

BadToken == <<"bad">>

\* the tokens of s from index i on; BadToken is appended where no token
\* can be read
RECURSIVE Tokens(_, _)
Tokens(s, i) ==
  IF i >= Len(s) THEN <<>>
  ELSE LET c == At(s, i) IN
    IF c \in Whitespace THEN Tokens(s, i + 1)
    ELSE IF c \in JsonPunct THEN <<<<c>>>> \o Tokens(s, i + 1)
    ELSE IF c = "\""
      THEN LET e == StringEnd(s, i + 1)
           IN IF e = -1 THEN <<BadToken>>
              ELSE <<<<"str", SubSeq(s, i + 2, e)>>>> \o Tokens(s, e + 1)
    ELSE LET m == NumMatch(s, i)
         IN IF JsonNumberOk(m)
              THEN <<<<"num", parseFloat(m)>>>> \o Tokens(s, i + m.len)
              ELSE <<BadToken>>

IsStr(t) == t[1] = "str"
IsNum(t) == t[1] = "num"
IsPunct(t, c) == t = <<c>>

\* ParseValue(ts, p): the position after the JSON value that starts at
\* token p (1-based), 0 when there is none
RECURSIVE ParseValue(_, _)
RECURSIVE ParseMembers(_, _)
RECURSIVE ParseElements(_, _)

\* after "{" or ",": "key" : value, then "," or "}"
ParseMembers(ts, p) ==
  IF p + 1 <= Len(ts) /\ IsStr(ts[p]) /\ IsPunct(ts[p + 1], ":")
    THEN LET q == ParseValue(ts, p + 2)
         IN IF q = 0 \/ q > Len(ts) THEN 0
            ELSE IF IsPunct(ts[q], "}") THEN q + 1
            ELSE IF IsPunct(ts[q], ",") THEN ParseMembers(ts, q + 1)
            ELSE 0
    ELSE 0

\* after "[" or ",": value, then "," or "]"
ParseElements(ts, p) ==
  LET q == ParseValue(ts, p)
  IN IF q = 0 \/ q > Len(ts) THEN 0
     ELSE IF IsPunct(ts[q], "]") THEN q + 1
     ELSE IF IsPunct(ts[q], ",") THEN ParseElements(ts, q + 1)
     ELSE 0

ParseValue(ts, p) ==
  IF p > Len(ts) THEN 0
  ELSE IF IsStr(ts[p]) \/ IsNum(ts[p]) THEN p + 1
  ELSE IF IsPunct(ts[p], "{")
    THEN (IF p + 1 <= Len(ts) /\ IsPunct(ts[p + 1], "}") THEN p + 2
          ELSE ParseMembers(ts, p + 1))
  ELSE IF IsPunct(ts[p], "[")
    THEN (IF p + 1 <= Len(ts) /\ IsPunct(ts[p + 1], "]") THEN p + 2
          ELSE ParseElements(ts, p + 1))
  ELSE 0

\* JSON.parse(s): [ok, value]; the value is the token sequence, which
\* determines the parsed structure (numbers are held by value)
SyntaxError == [ok |-> FALSE, value |-> <<>>]
JSONparse(s) ==
  LET ts == Tokens(s, 0)
  IN IF ts # <<>> /\ ParseValue(ts, 1) = Len(ts) + 1
       THEN [ok |-> TRUE, value |-> ts]
       ELSE SyntaxError

----------------------------------------------------------------------------
\* cleanJsonString: the fallback repair, and version 2's replacements

\* .replace(/,\s*([\]}])/g, '$1')
RECURSIVE StripTrailingCommas(_, _)
StripTrailingCommas(s, i) ==
  IF i >= Len(s) THEN <<>>
  ELSE LET j == SkipWhitespace(s, i + 1)
       IN IF At(s, i) = "," /\ j < Len(s) /\ At(s, j) \in {"]", "}"}
            THEN <<At(s, j)>> \o StripTrailingCommas(s, j + 1)
            ELSE <<At(s, i)>> \o StripTrailingCommas(s, i + 1)

RECURSIVE WordRun(_, _)
WordRun(s, i) ==
  IF i < Len(s) /\ At(s, i) \in WordChars THEN 1 + WordRun(s, i + 1) ELSE 0

\* .replace(/([{,]\s*)([a-zA-Z0-9_]+)\s*:/g, '$1"$2":')
RECURSIVE QuoteBareKeys(_, _)
QuoteBareKeys(s, i) ==
  IF i >= Len(s) THEN <<>>
  ELSE LET w == SkipWhitespace(s, i + 1)
           n == WordRun(s, w)
           c == SkipWhitespace(s, w + n)
       IN IF At(s, i) \in {"{", ","} /\ n > 0 /\ c < Len(s) /\ At(s, c) = ":"
            THEN SubSeq(s, i + 1, w) \o <<"\"">> \o SubSeq(s, w + 1, w + n)
                 \o <<"\"", ":">> \o QuoteBareKeys(s, c + 1)
            ELSE <<At(s, i)>> \o QuoteBareKeys(s, i + 1)

\* const fallbackRepair = cleaned.replace(...).replace(...)
FallbackRepair(s) == QuoteBareKeys(StripTrailingCommas(s, 0), 0)

\* version 2: .replace(/(\d+\.\d{4})\d+/g, '$1')
RECURSIVE TruncateLongFloats(_, _)
TruncateLongFloats(s, i) ==
  IF i >= Len(s) THEN <<>>
  ELSE LET n == DigitRun(s, i)
           f == IF n > 0 /\ i + n < Len(s) /\ At(s, i + n) = "."
                  THEN DigitRun(s, i + n + 1) ELSE 0
       IN IF f >= 5
            THEN SubSeq(s, i + 1, i + n + 5) \o TruncateLongFloats(s, i + n + 1 + f)
            ELSE <<At(s, i)>> \o TruncateLongFloats(s, i + 1)

\* version 2: cleanJsonString after the isolation
RegexCleanV2(s) == StripTrailingCommas(TruncateLongFloats(s, 0), 0)

----------------------------------------------------------------------------
\* One response text handled by runAnalysisBatch: the empty check,
\* cleanJsonString (with forensicJsonSanitize one loop iteration at a time)
\* and JSON.parse.

\* the pieces a response text is built from
Fragments == {
  <<"0", ".", "1", "2", "3", "4", "5", "6", "7", "8", "9">>,   \* an over-precise literal
  <<"1", "e", "-", "2", "0">>,   \* a tiny literal
  <<"-", "0", ".", "0", "0", "0", "0", "5">>,   \* a negative half step
  <<"1", "e", "2", "2">>,   \* a large literal
  <<"1", "e", "3", "0", "5">>,   \* a literal whose product with 10000 overflows
  <<"1", "e", "9", "9", "9">>,   \* a literal beyond the double range
  <<"1", ".", "0", "0", "0", "0", "1">>,
  <<".", "2", "5", "6", "7", "8", "9">>,
  <<"\"", "a", "}", "{", "b", "\"">>,   \* a string that holds a closer and an opener
  <<"\"", "x", "\\", "\\", "\"">>,   \* a string that ends in an escaped backslash
  <<"\"", "x", Backtick, Backtick, Backtick, "1", ".", "5", "0", "\"">>,   \* a string that holds a fence and a literal
  <<"\"", "x", ",", "}", "\"">>,   \* a string that holds a trailing comma
  <<"{", "}">>,
  <<"{", "b", ":", "1", ",", "}">>,   \* a bare key and a trailing comma
  <<" ">>,
  <<",">>,
  <<"{">>,
  <<"}">>
}

\* what surrounds the pieces: nothing, an object, a fenced object
Wraps == {
  [pre |-> <<>>, post |-> <<>>],
  [pre |-> <<"{", "\"", "a", "\"", ":">>, post |-> <<"}">>],
  [pre |-> <<Backtick, Backtick, Backtick, "j", "s", "o", "n", " ", "{", "\"", "a", "\"", ":", "[">>, post |-> <<"]", "}", " ", Backtick, Backtick, Backtick>>]
}

MaxFragments == 2

RECURSIVE Bodies(_)
Bodies(n) ==
  IF n = 0 THEN {<<>>}
  ELSE Bodies(n - 1) \cup {b \o f : b \in Bodies(n - 1), f \in Fragments}

ResponseTexts == {w.pre \o b \o w.post : w \in Wraps, b \in Bodies(MaxFragments)}

NoSanError == [kind |-> None, parseMessage |-> FALSE, snippet |-> <<>>]
NoParseError == [thrown |-> FALSE, text |-> <<>>]

\* new Error(...): which error, whether its message quotes e.message of the
\* failed JSON.parse, and the piece of the response text it quotes
SanError(kind, quotesParseMessage) ==
  [kind |-> kind, parseMessage |-> quotesParseMessage, snippet |-> <<>>]

\* the pipeline model (Spec) handles no response text
SanIdle ==
  /\ text = <<>>
  /\ sanPc = "Idle"
  /\ cleaned = <<>>
  /\ scanI = 0
  /\ inQuote = FALSE
  /\ scanOut = <<>>
  /\ cleanLog = <<>>
  /\ parseLog = <<>>
  /\ parseError = NoParseError
  /\ sanResult = SyntaxError
  /\ sanError = NoSanError

\* version 1: !text || text.trim() === "";  version 2: !text
IsEmptyResponse(v, t) == IF v = 1 THEN t = <<>> \/ trim(t) = <<>> ELSE t = <<>>

\* throw new Error("Empty response ...") / ("The AI agent failed ...")
RejectEmpty ==
  /\ sanPc = "Received"
  /\ IsEmptyResponse(version, text)
  /\ sanPc' = "Thrown"
  /\ sanError' = SanError("EmptyResponse", FALSE)
  /\ UNCHANGED <<pipeVars, appVars, text, cleaned, scanI, inQuote, scanOut, cleanLog,
                 parseLog, parseError, sanResult>>

\* cleanJsonString(text) is called
EnterClean ==
  /\ sanPc = "Received"
  /\ ~IsEmptyResponse(version, text)
  /\ sanPc' = "Cleaning"
  /\ cleanLog' = Append(cleanLog, text)
  /\ UNCHANGED <<pipeVars, appVars, text, cleaned, scanI, inQuote, scanOut,
                 parseLog, parseError, sanResult, sanError>>

\* version 1: throw new Error("The forensic report was incomplete ...")
IsolateThrows ==
  /\ sanPc = "Cleaning"
  /\ ~IsolateJson(version, text).found
  /\ sanPc' = "Thrown"
  /\ sanError' = SanError("NoJsonObject", FALSE)
  /\ UNCHANGED <<pipeVars, appVars, text, cleaned, scanI, inQuote, scanOut, cleanLog,
                 parseLog, parseError, sanResult>>

\* cleaned = cleaned.substring(start, end + 1); version 1 goes on to
\* forensicJsonSanitize, version 2 to its replacements
IsolateOk ==
  /\ sanPc = "Cleaning"
  /\ IsolateJson(version, text).found
  /\ cleaned' = IsolateJson(version, text).text
  /\ sanPc' = IF version = 1 THEN "Scanning" ELSE "Replacing"
  /\ scanI' = ScanStart.i
  /\ inQuote' = ScanStart.inQuote
  /\ scanOut' = ScanStart.result
  /\ UNCHANGED <<pipeVars, appVars, text, cleanLog, parseLog, parseError, sanResult, sanError>>

\* one iteration of the while loop of forensicJsonSanitize
ScanIterate ==
  /\ sanPc = "Scanning"
  /\ scanI < Len(cleaned)
  /\ LET st == ScanStep(cleaned, [i |-> scanI, inQuote |-> inQuote, result |-> scanOut])
     IN /\ scanI' = st.i
        /\ inQuote' = st.inQuote
        /\ scanOut' = st.result
  /\ UNCHANGED <<pipeVars, appVars, text, sanPc, cleaned, cleanLog, parseLog, parseError,
                 sanResult, sanError>>

\* return result;  cleaned = forensicJsonSanitize(cleaned)
ScanReturn ==
  /\ sanPc = "Scanning"
  /\ scanI >= Len(cleaned)
  /\ cleaned' = scanOut
  /\ sanPc' = "Parsing"
  /\ UNCHANGED <<pipeVars, appVars, text, scanI, inQuote, scanOut, cleanLog, parseLog,
                 parseError, sanResult, sanError>>

\* version 1: return JSON.parse(cleaned)
ParseOk ==
  /\ sanPc = "Parsing"
  /\ JSONparse(cleaned).ok
  /\ parseLog' = Append(parseLog, cleaned)
  /\ sanResult' = JSONparse(cleaned)
  /\ sanPc' = "Returned"
  /\ UNCHANGED <<pipeVars, appVars, text, cleaned, scanI, inQuote, scanOut, cleanLog,
                 parseError, sanError>>

\* where a failed first parse leads, and whether a parse may follow a
\* failed fallback parse
AfterParseFailureGiveUp == "Thrown"
AfterParseFailure == "Fallback"

\* version 1: catch (e) of the first JSON.parse
ParseFails ==
  /\ sanPc = "Parsing"
  /\ ~JSONparse(cleaned).ok
  /\ parseLog' = Append(parseLog, cleaned)
  /\ parseError' = [thrown |-> TRUE, text |-> cleaned]
  /\ sanPc' = AfterParseFailure
  /\ sanError' = IF AfterParseFailure = "Thrown" THEN SanError("Corrupted", TRUE)
                 ELSE sanError
  /\ UNCHANGED <<pipeVars, appVars, text, cleaned, scanI, inQuote, scanOut, cleanLog,
                 sanResult>>

\* version 1: return JSON.parse(fallbackRepair)
FallbackOk ==
  /\ sanPc = "Fallback"
  /\ JSONparse(FallbackRepair(cleaned)).ok
  /\ parseLog' = Append(parseLog, FallbackRepair(cleaned))
  /\ sanResult' = JSONparse(FallbackRepair(cleaned))
  /\ sanPc' = "Returned"
  /\ UNCHANGED <<pipeVars, appVars, text, cleaned, scanI, inQuote, scanOut, cleanLog,
                 parseError, sanError>>

\* version 1: catch (innerError): throw new Error(`Forensic Audit
\* Interrupted: The data stream was corrupted (${errorContext}). ...`)
FallbackFails ==
  /\ sanPc = "Fallback"
  /\ ~JSONparse(FallbackRepair(cleaned)).ok
  /\ parseLog' = Append(parseLog, FallbackRepair(cleaned))
  /\ sanPc' = "Thrown"
  /\ sanError' = SanError("Corrupted", parseError.thrown)
  /\ UNCHANGED <<pipeVars, appVars, text, cleaned, scanI, inQuote, scanOut, cleanLog,
                 parseError, sanResult>>

\* version 2: the two replacements; return cleaned
ReplaceV2 ==
  /\ sanPc = "Replacing"
  /\ cleaned' = RegexCleanV2(cleaned)
  /\ sanPc' = "ParsingV2"
  /\ UNCHANGED <<pipeVars, appVars, text, scanI, inQuote, scanOut, cleanLog, parseLog,
                 parseError, sanResult, sanError>>

\* version 2: return JSON.parse(cleanJsonString(text))
ParseOkV2 ==
  /\ sanPc = "ParsingV2"
  /\ JSONparse(cleaned).ok
  /\ parseLog' = Append(parseLog, cleaned)
  /\ sanResult' = JSONparse(cleaned)
  /\ sanPc' = "Returned"
  /\ UNCHANGED <<pipeVars, appVars, text, cleaned, scanI, inQuote, scanOut, cleanLog,
                 parseError, sanError>>

\* version 2: catch (e): throw new Error("The property report could not be
\* formatted correctly. Try splitting your documents.")
ParseFailsV2 ==
  /\ sanPc = "ParsingV2"
  /\ ~JSONparse(cleaned).ok
  /\ parseLog' = Append(parseLog, cleaned)
  /\ parseError' = [thrown |-> TRUE, text |-> cleaned]
  /\ sanPc' = "Thrown"
  /\ sanError' = SanError("Unformattable", FALSE)
  /\ UNCHANGED <<pipeVars, appVars, text, cleaned, scanI, inQuote, scanOut, cleanLog,
                 sanResult>>

----------------------------------------------------------------------------
\* useState initial values of App; no analyzeProperty call has been made
AppIdle ==
  /\ appFiles = 0
  /\ isAnalyzing = FALSE
  /\ results = NoResult
  /\ appError = NoError
  /\ analyses = {}
  /\ runs = 0

Init ==
  /\ version \in Versions
  /\ \E n \in 0..MaxDocs : \E ks \in [1..n -> DocKinds] :
       files = [k \in 1..n |-> UploadedFile(k, ks[k].type, ks[k].pages)]
  /\ pc = "Splitting"
  /\ fileIdx = 1
  /\ splitPc = "idle"
  /\ totalPages = 0
  /\ splitI = 0
  /\ chunks = <<>>
  /\ splitResults = <<>>
  /\ allProcessedFiles = <<>>
  /\ batches = <<>>
  /\ batchI = 0
  /\ partialReports = <<>>
  /\ callLog = <<>>
  /\ inFlight = {}
  /\ result = NoResult
  /\ error = NoError
  /\ persona \in Personas
  /\ returned = NoResponse
  /\ abandoned = FALSE
  /\ SanIdle
  /\ AppIdle

Next ==
  \/ SplitStart
  \/ SplitLoadOk
  \/ SplitLoadFail
  \/ SplitCopyOk
  \/ SplitCopyFail
  \/ SplitLoopReturn
  \/ SplitAllDone
  \/ StartBatchLoopV1
  \/ IssueSingleV1
  \/ PlanBatchesV2
  \/ IssueBatch
  \/ BatchReturns
  \/ SynthesizeV1
  \/ FinishV2
  \/ FinalReturns
  \/ CallRejects
  \/ Abandon

Spec == Init /\ [][Next]_vars

\* a response text arrives in either version; the pipeline is not running
SanInit ==
  /\ version \in Versions
  /\ files = <<>>
  /\ pc = "Splitting"
  /\ fileIdx = 1
  /\ splitPc = "idle"
  /\ totalPages = 0
  /\ splitI = 0
  /\ chunks = <<>>
  /\ splitResults = <<>>
  /\ allProcessedFiles = <<>>
  /\ batches = <<>>
  /\ batchI = 0
  /\ partialReports = <<>>
  /\ callLog = <<>>
  /\ inFlight = {}
  /\ result = NoResult
  /\ error = NoError
  /\ persona = "occupier"
  /\ returned = NoResponse
  /\ abandoned = FALSE
  /\ AppIdle
  /\ text \in ResponseTexts
  /\ sanPc = "Received"
  /\ cleaned = <<>>
  /\ scanI = 0
  /\ inQuote = FALSE
  /\ scanOut = <<>>
  /\ cleanLog = <<>>
  /\ parseLog = <<>>
  /\ parseError = NoParseError
  /\ sanResult = SyntaxError
  /\ sanError = NoSanError

SanNext ==
  \/ RejectEmpty
  \/ EnterClean
  \/ IsolateThrows
  \/ IsolateOk
  \/ ScanIterate
  \/ ScanReturn
  \/ ParseOk
  \/ ParseFails
  \/ FallbackOk
  \/ FallbackFails
  \/ ReplaceV2
  \/ ParseOkV2
  \/ ParseFailsV2

SanSpec == SanInit /\ [][SanNext]_vars

----------------------------------------------------------------------------
\* Properties

RECURSIVE Concat(_)
Concat(ss) == IF ss = <<>> THEN <<>> ELSE Head(ss) \o Concat(Tail(ss))

IsPrefix(s, t) == Len(s) <= Len(t) /\ SubSeq(t, 1, Len(s)) = s

Ceil(a, b) == (a + b - 1) \div b

IsExtraction(req) == ~req.isSynthesis
ExtractCalls == SelectSeq(callLog, IsExtraction)
SynthCalls == SelectSeq(callLog, LAMBDA req : req.isSynthesis)

\* the batches handed to the model so far, in the order they were sent
SentBatches == [k \in 1..Len(ExtractCalls) |-> ExtractCalls[k].files]

\* the extraction loop has run to its end
ExtractionComplete == pc \in {"AwaitFinal", "Done"}

\* version 2 has built its batches array
BatchesPlanned ==
  \/ pc \in {"Loop", "AwaitBatch", "AwaitFinal", "Done"}
  \/ pc = "Failed" /\ error.kind # "SplitError"

\* C1: the batches sent to the model are consecutive pieces of the chunk
\* sequence: concatenated in order they are always a prefix of it, and once
\* every batch has been sent they give back exactly the chunk sequence (no
\* chunk dropped, none sent twice, order kept).  Version 2's batches array
\* is such a partition as soon as it is built.
C1_BatchesPartitionChunks ==
  /\ IsPrefix(Concat(SentBatches), allProcessedFiles)
  /\ ExtractionComplete => Concat(SentBatches) = allProcessedFiles
  /\ (version = 2 /\ BatchesPlanned) => Concat(batches) = allProcessedFiles

C1_Witness ==
  /\ pc = "Done"
  /\ Len(SentBatches) >= 3
  /\ Len(SentBatches[1]) = 2
  /\ Len(SentBatches[Len(SentBatches)]) = 1

\* C2 (as claimed): every batch sent to the model holds at most
\* MAX_PAGES_PER_BUCKET pages, unless it is a single chunk.  Stated for
\* requests whose documents are all PDFs, whose page counts are known.
C2_BatchWithinPageBudget ==
  (\A d \in 1..Len(files) : files[d].type = PdfType) =>
    \A k \in 1..Len(SentBatches) :
      \/ PageSum(SentBatches[k]) <= MAX_PAGES_PER_BUCKET
      \/ Len(SentBatches[k]) = 1

\* C3: at most one request is in flight, it is the one issued last, the
\* c-th extraction request carries the c-th pair of chunks, and every
\* request before the last one has returned its report, stored in order.
C3_SequentialInOrder ==
  /\ Cardinality(inFlight) <= 1
  /\ inFlight \subseteq {Len(callLog)}
  /\ \A c \in 1..Len(callLog) :
       /\ IsExtraction(callLog[c])
            => callLog[c].files = slice(allProcessedFiles, 2 * (c - 1), 2 * c)
       /\ c < Len(callLog)
            => /\ IsExtraction(callLog[c])
               /\ c <= Len(partialReports)
               /\ partialReports[c] = ReportOf(c)

C3_Witness ==
  /\ pc = "AwaitBatch"
  /\ Len(callLog) >= 2
  /\ inFlight = {Len(callLog)}
  /\ Len(partialReports) = Len(callLog) - 1

\* C4: once a request has failed the run is rejected with that failure:
\* the failed request is the last one ever issued (no later batch, no
\* synthesis), nothing is in flight and no report is returned.
C4_FailureAbortsRun ==
  error.kind \in FailureKinds =>
    /\ pc = "Failed"
    /\ result = NoResult
    /\ inFlight = {}
    /\ Len(callLog) = error.call
    /\ IsExtraction(callLog[error.call]) => SynthCalls = <<>>

\* a batch failed while later chunks were still waiting to be sent
C4_Witness ==
  /\ pc = "Failed"
  /\ error.kind \in FailureKinds
  /\ error.call >= 2
  /\ IsExtraction(callLog[error.call])
  /\ Len(Concat(SentBatches)) < Len(allProcessedFiles)

\* C5: a synthesis request exists only after more than one extraction
\* request, all of which have returned; a run that resolves after exactly
\* one batch made exactly one request and returns its report, and a run
\* that resolves after two or more batches made exactly one synthesis
\* request, as its last request, and returns the report of that request.
C5_SynthesisIffManyBatches ==
  /\ Len(SynthCalls) <= 1
  /\ Len(SynthCalls) = 1 =>
       /\ Len(ExtractCalls) > 1
       /\ callLog[Len(callLog)].isSynthesis
       /\ callLog[Len(callLog)].previousResults =
            [c \in 1..Len(ExtractCalls) |-> ReportOf(c)]
  /\ pc = "Done" =>
       /\ Len(ExtractCalls) >= 1
       /\ Len(ExtractCalls) = 1 => (Len(callLog) = 1 /\ result = ReportOf(1))
       /\ Len(ExtractCalls) > 1 =>
            /\ Len(SynthCalls) = 1
            /\ result = ReportOf(Len(callLog))

C5_Witness ==
  /\ pc = "Done"
  /\ Len(ExtractCalls) = 2
  /\ Len(SynthCalls) = 1
  /\ result = ReportOf(3)

\* the number of times the request that failed was sent to the model
AttemptsOfFailedCall ==
  Cardinality({c \in 1..Len(callLog) : callLog[c] = callLog[error.call]})

\* C6 (as claimed): a failure of a model request is propagated only after
\* the request has been retried; with the scenario's three attempts, a run
\* on at least one document never rejects with a request failure after
\* fewer than three attempts.
C6_RetriedBeforePropagating ==
  (files # <<>> /\ pc = "Failed" /\ error.kind \in FailureKinds)
    => AttemptsOfFailedCall >= 3

\* C7 (as claimed): a run on an empty document list issues no model
\* request and never resolves with a report.
C7_EmptyListRejectedAtOnce ==
  files = <<>> => (callLog = <<>> /\ pc # "Done")

\* C8: for a file that is not a PDF, or a PDF of at most
\* MAX_PAGES_PER_BUCKET pages, splitLargePdf returns the one-element list
\* holding the file itself; a file that is not a PDF cannot make it raise.
C8_SmallOrNonPdfUnchanged ==
  /\ \A k \in 1..Len(splitResults) :
       (files[k].type # PdfType \/ PagesOf(files[k]) <= MAX_PAGES_PER_BUCKET)
         => splitResults[k].chunks = <<files[k]>>
  /\ error.kind = "SplitError" => files[fileIdx].type = PdfType

C8_Witness ==
  \E j, k \in 1..Len(splitResults) :
    /\ files[j].type = ImageType
    /\ files[k].type = PdfType
    /\ PagesOf(files[k]) = MAX_PAGES_PER_BUCKET
    /\ splitResults[k].how = "whole"

\* C9: a PDF of P > MAX_PAGES_PER_BUCKET pages whose split ran without an
\* exception comes back as ceil(P / MAX_PAGES_PER_BUCKET) chunks, chunk j
\* (0-indexed) holding exactly the pages [j*B, min((j+1)*B, P)): each chunk
\* has between 1 and B pages and the page counts sum to P.
C9_SplitCoversPages ==
  \A k \in 1..Len(splitResults) :
    LET P == PagesOf(files[k])
        r == splitResults[k]
    IN (files[k].type = PdfType /\ P > MAX_PAGES_PER_BUCKET /\ r.how # "fallback")
         => /\ r.how = "split"
            /\ Len(r.chunks) = Ceil(P, MAX_PAGES_PER_BUCKET)
            /\ \A j \in 1..Len(r.chunks) :
                 /\ r.chunks[j].base64 =
                      [doc |-> files[k].base64.doc,
                       from |-> (j - 1) * MAX_PAGES_PER_BUCKET,
                       to |-> Min(j * MAX_PAGES_PER_BUCKET, P)]
                 /\ PagesOf(r.chunks[j]) \in 1..MAX_PAGES_PER_BUCKET
            /\ PageSum(r.chunks) = P

C9_Witness ==
  \E k \in 1..Len(splitResults) :
    /\ splitResults[k].how = "split"
    /\ Len(splitResults[k].chunks) = 3
    /\ PagesOf(splitResults[k].chunks[3]) = 1

\* C10 (as claimed): a failure inside splitLargePdf never makes the run
\* reject, and a split that failed returns the original file alone.
C10_SplitFailureAbsorbed ==
  /\ error.kind # "SplitError"
  /\ \A k \in 1..Len(splitResults) :
       splitResults[k].how = "fallback" => splitResults[k].chunks = <<files[k]>>

----------------------------------------------------------------------------
\* Properties of the handling of one response text (SanSpec)

Contains(s, c) == \E k \in 1..Len(s) : s[k] = c

\* whether index i of s lies inside a JSON string literal: a quote opens a
\* string, a backslash inside a string escapes the character after it, an
\* unescaped quote closes the string
RECURSIVE InsideFrom(_, _, _, _)
InsideFrom(s, k, i, inside) ==
  IF k >= i THEN inside
  ELSE IF inside /\ At(s, k) = "\\" THEN InsideFrom(s, k + 2, i, inside)
  ELSE IF At(s, k) = "\"" THEN InsideFrom(s, k + 1, i, ~inside)
  ELSE InsideFrom(s, k + 1, i, inside)
InsideString(s, i) == InsideFrom(s, 0, i, FALSE)

\* the contents of the string literals of s, in order
RECURSIVE LiteralEnd(_, _)
LiteralEnd(s, i) ==
  IF i >= Len(s) THEN -1
  ELSE IF At(s, i) = "\"" THEN i
  ELSE IF At(s, i) = "\\" THEN LiteralEnd(s, i + 2)
  ELSE LiteralEnd(s, i + 1)
RECURSIVE LiteralsFrom(_, _)
LiteralsFrom(s, i) ==
  IF i >= Len(s) THEN <<>>
  ELSE IF At(s, i) = "\""
    THEN LET e == LiteralEnd(s, i + 1)
         IN IF e = -1 THEN <<>>
            ELSE <<SubSeq(s, i + 2, e)>> \o LiteralsFrom(s, e + 1)
  ELSE LiteralsFrom(s, i + 1)

\* the scan is about to run an iteration
ScanAtWork == sanPc = "Scanning" /\ scanI < Len(cleaned)
ScanState == [i |-> scanI, inQuote |-> inQuote, result |-> scanOut]
\* what that iteration reads and what it writes
Consumed == SubSeq(cleaned, scanI + 1, ScanStep(cleaned, ScanState).i)
Written ==
  SubSeq(ScanStep(cleaned, ScanState).result, Len(scanOut) + 1,
         Len(ScanStep(cleaned, ScanState).result))
Commas(s) == Len(SelectSeq(s, LAMBDA c : c = ","))

\* the cursor is at the start of a numeric literal outside every string
AtLiteralOutsideString ==
  /\ ScanAtWork
  /\ ~InsideString(cleaned, scanI)
  /\ NumMatch(cleaned, scanI).len > 0
  /\ scanI > 0 => At(cleaned, scanI - 1) \notin Digits \cup {".", "e", "E", "+", "-"}

\* the number a text is the literal of, Infinity(FALSE) if it is none
ValueOf(t) ==
  IF NumMatch(t, 0).len = Len(t) /\ t # <<>> THEN parseFloat(NumMatch(t, 0))
  ELSE Infinity(FALSE)
SameValue(a, b) == (IsZero(a) /\ IsZero(b)) \/ a = b

\* num rounded to 4 decimal places, a tie going away from zero or towards
\* +Infinity
RoundedTo4(num, away) ==
  LET k == 0 - (num.exp + 4)
      n == Len(num.mant)
      kept == IF k >= n THEN <<>> ELSE SubSeq(num.mant, 1, n - k)
      dropped == IF k > n THEN <<"0">> \o num.mant ELSE SubSeq(num.mant, n - k + 1, n)
      up == dropped # <<>> /\
            IF num.neg /\ ~away
              THEN DigitVal(dropped[1]) > 5 \/ (dropped[1] = "5" /\ Len(dropped) > 1)
              ELSE DigitVal(dropped[1]) >= 5
  IN IF IsZero(num) \/ k <= 0 THEN num
     ELSE Normalize(num.neg, IF up THEN Increment(kept) ELSE kept, -4)

\* C11: a response text that is empty or only whitespace ends in the
\* empty-response error, and is handed neither to cleanJsonString nor to
\* JSON.parse.
C11_EmptyTextRejected ==
  (trim(text) = <<>> /\ sanPc \notin {"Idle", "Received"}) =>
    /\ sanPc = "Thrown"
    /\ sanError.kind = "EmptyResponse"
    /\ cleanLog = <<>>
    /\ parseLog = <<>>

\* C12: cleanJsonString throws the no-JSON-object error when the
\* fence-stripped text has no "{" or no "}", and otherwise goes on with
\* exactly the text from the first "{" to the last "}".
C12_IsolatesObjectOrFails ==
  LET stripped == StripFences(text)
      hasBoth == Contains(stripped, "{") /\ Contains(stripped, "}")
  IN (cleanLog # <<>> /\ sanPc # "Cleaning") =>
       /\ ~hasBoth => (sanPc = "Thrown" /\ sanError.kind = "NoJsonObject")
       /\ (hasBoth /\ sanPc \in {"Scanning", "Replacing"}) =>
            cleaned = SubSeq(stripped, indexOf(stripped, "{") + 1,
                             lastIndexOf(stripped, "}") + 1)

\* C13: an iteration of the scan writes a comma of its own exactly when the
\* cursor is on a closer outside every string and an opener follows it
\* after at most whitespace; a closer inside a string is copied as it is.
C13_CommaOnlyBetweenCloserAndOpener ==
  ScanAtWork =>
    LET c == At(cleaned, scanI)
        j == SkipWhitespace(cleaned, scanI + 1)
        inside == InsideString(cleaned, scanI)
        opens == c \in {"}", "]"} /\ j < Len(cleaned) /\ At(cleaned, j) \in {"{", "["}
    IN /\ (~inside /\ opens) => Written = <<c, ",">>
       /\ ~(~inside /\ opens) => Commas(Written) = Commas(Consumed)
       /\ (inside /\ c \in {"}", "]"}) => Written = <<c>>

\* C14: a numeric literal outside every string is replaced by 0 when its
\* value is not finite or is non-zero and below 1e-15 in magnitude, and by
\* its value rounded to 4 decimal places otherwise.
C14_LiteralRoundedOrZeroed ==
  AtLiteralOutsideString =>
    LET num == parseFloat(NumMatch(cleaned, scanI))
    IN /\ Consumed = SubSeq(cleaned, scanI + 1, scanI + NumMatch(cleaned, scanI).len)
       /\ IF IsInfinite(num) \/ (~IsZero(num) /\ DecimalExponent(num) < -15)
            THEN Written = <<"0">>
            ELSE \E away \in BOOLEAN : SameValue(ValueOf(Written), RoundedTo4(num, away))

\* C15: the text written for a numeric literal has no exponent marker and
\* no unnecessary trailing zero.
C15_PlainDecimalNotation ==
  (ScanAtWork /\ ~inQuote /\ ~TogglesQuote(cleaned, scanI)
     /\ At(cleaned, scanI) \notin {"}", "]"} /\ NumMatch(cleaned, scanI).len > 0) =>
    /\ ~Contains(Written, "e")
    /\ ~Contains(Written, "E")
    /\ Contains(Written, ".") => Written[Len(Written)] \notin {"0", "."}

\* C16: a negative literal of magnitude at least 0.00005 is rounded away
\* from zero and keeps its sign.
C16_NegativeRoundedLikePositive ==
  (AtLiteralOutsideString /\ ~inQuote) =>
    LET num == parseFloat(NumMatch(cleaned, scanI))
    IN (num.neg /\ ~IsInfinite(num) /\ ~IsZero(RoundedTo4(num, TRUE))) =>
         /\ ValueOf(Written) = RoundedTo4(num, TRUE)
         /\ Written[1] = "-"

\* the text between the first "{" and the last "}" of the response
RawObject ==
  IF Contains(text, "{") /\ Contains(text, "}")
    THEN SubSeq(text, indexOf(text, "{") + 1, lastIndexOf(text, "}") + 1)
    ELSE <<>>

\* a is b with some elements left out
RECURSIVE IsSubsequence(_, _)
IsSubsequence(a, b) ==
  IF a = <<>> THEN TRUE
  ELSE IF b = <<>> THEN FALSE
  ELSE IF Head(a) = Head(b) THEN IsSubsequence(Tail(a), Tail(b))
  ELSE IsSubsequence(a, Tail(b))

\* C17: every string literal of the JSON text of the response is, character
\* for character and in order, a string literal of the text that version 1
\* finally parses (which may hold more: the keys the fallback quoted).
C17_StringContentUntouched ==
  (version = 1 /\ sanPc = "Returned") =>
    IsSubsequence(LiteralsFrom(RawObject, 0), LiteralsFrom(parseLog[Len(parseLog)], 0))

\* C18: in version 1 the first text parsed is the scanned text; the
\* fallback repair is parsed only after that parse failed, and nothing is
\* parsed after it: a scanned text that parses is returned as parsed, and
\* a failure of the second parse ends in the error.
C18_FallbackOnceAfterFailure ==
  version = 1 =>
    /\ Len(parseLog) <= 2
    /\ Len(parseLog) >= 1 => parseLog[1] = cleaned
    /\ Len(parseLog) = 2 =>
         /\ ~JSONparse(parseLog[1]).ok
         /\ parseLog[2] = FallbackRepair(parseLog[1])
         /\ sanPc \in {"Returned", "Thrown"}
    /\ (sanPc = "Returned" /\ JSONparse(parseLog[1]).ok) =>
         (Len(parseLog) = 1 /\ sanResult = JSONparse(parseLog[1]))
    /\ (sanPc = "Returned" /\ ~JSONparse(parseLog[1]).ok) =>
         (Len(parseLog) = 2 /\ sanResult = JSONparse(parseLog[2]) /\ sanResult.ok)
    /\ (sanPc = "Thrown" /\ parseLog # <<>>) =>
         /\ Len(parseLog) = 2
         /\ ~JSONparse(parseLog[2]).ok
         /\ sanError.kind = "Corrupted"
    /\ sanPc = "Fallback" => (Len(parseLog) = 1 /\ ~JSONparse(parseLog[1]).ok)

\* the fallback repair changed the text and its parse succeeded
C18_Witness ==
  /\ version = 1
  /\ sanPc = "Returned"
  /\ Len(parseLog) = 2
  /\ parseLog[2] # parseLog[1]

\* C19: the error raised for a text that cannot be parsed carries the
\* message of the parse error and a piece of the text that is shorter than
\* the response.
C19_ErrorCarriesMessageAndSnippet ==
  (sanPc = "Thrown" /\ parseError.thrown) =>
    /\ sanError.parseMessage
    /\ sanError.snippet # <<>>
    /\ Len(sanError.snippet) < Len(text)

\* C20: a valid JSON text that forensicJsonSanitize returned is parsed to
\* the same structure after forensicJsonSanitize is applied to it again.
C20_SanitizeIdempotentOnValid ==
  (sanPc = "Parsing" /\ JSONparse(cleaned).ok) =>
    JSONparse(forensicJsonSanitize(cleaned)) = JSONparse(cleaned)

----------------------------------------------------------------------------
\* Synthesis request, phases, persona, cancellation

\* the parts of the request number c as generateContent receives them
PartsOfCall(c) == Parts(callLog[c], profileDescription)

\* C21: a synthesis request is made with no files; its parts are the single
\* text part of the synthesis prompt, with no inlineData part, and that
\* prompt carries the reports of the extraction batches, one per batch in
\* batch order; its outcome is handled like that of an extraction request:
\* a rejection has one of the same failure kinds and a resolution is the
\* report parsed from its response.
C21_SynthesisCarriesOnlyReports ==
  /\ \A c \in 1..Len(callLog) :
       callLog[c].isSynthesis =>
         /\ callLog[c].files = <<>>
         /\ Len(PartsOfCall(c)) = 1
         /\ \A k \in 1..Len(PartsOfCall(c)) : DOMAIN PartsOfCall(c)[k] = {"text"}
         /\ PartsOfCall(c)[1].text.task = "SYNTHESIS TASK"
         /\ PartsOfCall(c)[1].text.data =
              [k \in 1..Len(ExtractCalls) |-> ReportOf(k)]
         /\ Len(PartsOfCall(c)[1].text.data) = Ceil(Len(allProcessedFiles), 2)
  /\ \A c \in 1..Len(callLog) :
       (~callLog[c].isSynthesis /\ callLog[c].files # <<>>) =>
         /\ Len(PartsOfCall(c)) = Len(callLog[c].files) + 1
         /\ \A k \in 1..Len(callLog[c].files) :
              PartsOfCall(c)[k].inlineData.data = callLog[c].files[k].base64
  /\ (error.call > 0 /\ callLog[error.call].isSynthesis) =>
       (error.kind \in FailureKinds /\ pc = "Failed" /\ result = NoResult)
  /\ (pc = "Done" /\ SynthCalls # <<>>) =>
       (result = ReportOf(Len(callLog)) /\ callLog[Len(callLog)].isSynthesis)

\* a synthesis over three partial reports has resolved
C21_Witness ==
  /\ pc = "Done"
  /\ Len(SynthCalls) = 1
  /\ Len(SynthCalls[1].previousResults) >= 3
  /\ result = ReportOf(Len(callLog))

\* the phase of the run: splitting, planning, invoking, synthesizing, ended
PhaseRank(p, log) ==
  CASE p = "Splitting" -> 1
    [] p = "Planning" -> 2
    [] p \in {"Loop", "AwaitBatch"} -> 3
    [] p = "AwaitFinal" -> IF log[Len(log)].isSynthesis THEN 4 ELSE 3
    [] p \in {"Done", "Failed"} -> 5

RunEnded == pc \in {"Done", "Failed"}

C22_Step ==
  /\ PhaseRank(pc', callLog') >= PhaseRank(pc, callLog)
  /\ callLog' # callLog =>
       /\ Len(splitResults) = Len(files)
       /\ ~RunEnded
       /\ \E req \in {callLog'[Len(callLog')]} : callLog' = Append(callLog, req)
       /\ \A c \in 1..Len(callLog) : ~callLog[c].isSynthesis
  /\ RunEnded =>
       /\ pc' = pc /\ result' = result /\ error' = error
       /\ callLog' = callLog /\ inFlight' = inFlight
  /\ pc' = "Done" => (result' # NoResult /\ error' = NoError /\ inFlight' = {})
  /\ pc' = "Failed" => (error' # NoError /\ result' = NoResult /\ inFlight' = {})

\* C22: in every step of a run the phase (splitting, planning, invoking,
\* synthesizing, ended) stays or moves forward; a model request is issued
\* only when every document has been split, the run has not ended and no
\* synthesis request has been issued before it; a run that has ended, with
\* a report and no error or with an error and no report, keeps its outcome
\* and issues nothing more.
C22_PhasesInOrderEndsOnce == [][C22_Step]_vars

\* a run over several documents has ended after splitting, batches and synthesis
C22_Witness ==
  /\ pc = "Done"
  /\ Len(files) >= 2
  /\ Len(splitResults) = Len(files)
  /\ \E k \in 1..Len(splitResults) : splitResults[k].how = "split"
  /\ Len(ExtractCalls) >= 2
  /\ callLog[Len(callLog)].isSynthesis

\* the optional sections populated in a report, as its response held them
SectionsOf(report) ==
  IF returned.call = report.call THEN returned.sections ELSE {}

\* C23: the report a run returns holds no populated rentVsBuy when the
\* persona is investor and no populated investorWealth when the persona is
\* occupier.
C23_ReportRespectsPersona ==
  pc = "Done" =>
    /\ persona = "investor" => "rentVsBuy" \notin SectionsOf(result)
    /\ persona = "occupier" => "investorWealth" \notin SectionsOf(result)

\* C24: once the caller has abandoned the request, the run issues no
\* further request to the model, neither for a batch nor for the synthesis.
C24_NoCallAfterAbandon == [][abandoned => callLog' = callLog]_vars

----------------------------------------------------------------------------
\* Scan state, chunk identity, isolation, the two plans

\* C25: at the start of every iteration of the scan, inQuote is true exactly
\* when the cursor is inside a string literal of the scanned text, escaped
\* quotes and escaped backslashes included.
C25_InQuoteTracksStrings ==
  ScanAtWork => (inQuote <=> InsideString(cleaned, scanI))

\* the chunks splitLargePdf built for document k keep its type, carry its
\* name followed by a suffix of their own, and hold pages of that document
ChunksKeepIdentity ==
  \A k \in 1..Len(splitResults) :
    /\ \A j \in 1..Len(splitResults[k].chunks) :
         splitResults[k].chunks[j].type = files[k].type
    /\ splitResults[k].how = "split" =>
         /\ \A j \in 1..Len(splitResults[k].chunks) :
              /\ IsPrefix(files[k].name, splitResults[k].chunks[j].name)
              /\ Len(splitResults[k].chunks[j].name) > Len(files[k].name)
              /\ splitResults[k].chunks[j].base64.doc = files[k].base64.doc
         /\ \A i, j \in 1..Len(splitResults[k].chunks) :
              i # j => splitResults[k].chunks[i].name # splitResults[k].chunks[j].name

\* C26: in every step the documents handed to analyzeProperty stay as they
\* were, and every chunk built so far has the MIME type of its source
\* document and a name that is the source name followed by a suffix no
\* other chunk of that document has.
C26_SplitKeepsTypeNamesChunks == [][files' = files /\ ChunksKeepIdentity']_vars

\* a document has been split into three chunks
C26_Witness ==
  \E k \in 1..Len(splitResults) :
    /\ splitResults[k].how = "split"
    /\ Len(splitResults[k].chunks) >= 3
    /\ splitResults[k].chunks[1].name # files[k].name

C27_Step ==
  /\ ScanAtWork =>
       /\ sanPc' = "Scanning" /\ cleaned' = cleaned
       /\ scanI' >= scanI + 1
       /\ scanI' <= Len(cleaned)
       /\ scanI' = ScanStep(cleaned, ScanState).i
  /\ (sanPc = "Scanning" /\ ~ScanAtWork) => (sanPc' # "Scanning" /\ scanI' = scanI)
  /\ (sanPc = "Scanning" /\ sanPc' = "Scanning") => scanI' >= scanI

\* C27: every iteration of the scan loop moves the cursor forward by at
\* least one character and never past the end of the text, whichever branch
\* it takes, so the distance to the end shrinks in every iteration; when the
\* cursor is at the end the loop is left, and the cursor never moves back.
C27_ScanAdvances == [][C27_Step]_vars

\* a scan has reached the end of a text in which one iteration consumed
\* more than it wrote (a long literal, or whitespace after a closer)
C27_Witness ==
  /\ sanPc = "Scanning"
  /\ scanI = Len(cleaned)
  /\ Len(cleaned) >= 8
  /\ Len(scanOut) < Len(cleaned)

\* the isolation step has just handed its text on
IsolationPassed ==
  \/ sanPc = "Scanning" /\ scanI = 0 /\ scanOut = <<>>
  \/ sanPc = "Replacing"

\* C28: the text that the isolation step of cleanJsonString hands on, when
\* it does not throw, starts with "{" and ends with "}".
C28_IsolatedTextIsBraced ==
  IsolationPassed =>
    /\ cleaned # <<>>
    /\ cleaned[1] = "{"
    /\ cleaned[Len(cleaned)] = "}"

\* What version 1 does with a chunk sequence: batches of 2 and a synthesis
\* when there are more than 2 chunks, otherwise one request over all of them.
PlanV1(all) ==
  IF NeedsBatching(Len(all))
    THEN [batches |-> BatchesFrom(all, 0), synthesis |-> TRUE]
    ELSE [batches |-> <<all>>, synthesis |-> FALSE]

\* What version 2 does: always batches of 2, a synthesis unless there is at
\* most one batch.
PlanV2(all) ==
  [batches |-> BatchesFrom(all, 0), synthesis |-> Len(BatchesFrom(all, 0)) > 1]

PlanOfOtherVersion == IF version = 1 THEN PlanV2(allProcessedFiles) ELSE PlanV1(allProcessedFiles)

\* every request of the run resolved and the run has ended
RanToEnd == pc = "Done" \/ (pc = "Failed" /\ error.kind = "NoAnalysisData")

\* C29: a run in which no request fails has sent the extraction batches, and
\* made the decision on the synthesis request, that the other version
\* plans for the same chunk sequence.
C29_VersionsPlanSameCalls ==
  RanToEnd =>
    /\ SentBatches = PlanOfOtherVersion.batches
    /\ (SynthCalls # <<>>) = PlanOfOtherVersion.synthesis

----------------------------------------------------------------------------
\* App: the component state around handleStartAnalysis and reset.  A file
\* list is followed by its length, an analysis by its number.

MaxRuns == 3
MaxUploads == 2

\* setError("Please upload at least one strata document.")
PleaseUpload == [kind |-> "PleaseUpload", call |-> 0]

\* {!results ? ( ...the form... ) : <AnalysisDashboard />}
FormShown == results = NoResult

\* disabled={isAnalyzing || files.length === 0}
StartDisabledOnlyWhenEmpty == appFiles = 0
StartDisabled == isAnalyzing \/ appFiles = 0

\* <FileUpload onFilesChange={setFiles} files={files} />
OnFilesChange ==
  /\ FormShown
  /\ \E n \in 0..MaxUploads : n # appFiles /\ appFiles' = n
  /\ UNCHANGED <<isAnalyzing, results, appError, analyses, runs>>
  /\ UNCHANGED <<pipeVars, sanVars>>

\* onClick={() => setPersona('occupier')}, onClick={() => setPersona('investor')}
SetPersona ==
  /\ FormShown
  /\ \E p \in Personas : p # persona /\ persona' = p
  /\ UNCHANGED <<version, files, pc, result, error, returned, abandoned>>
  /\ UNCHANGED splitVars /\ UNCHANGED callVars
  /\ UNCHANGED <<sanVars, appVars>>

\* onClick={handleStartAnalysis}, up to the await
ClickStart ==
  /\ FormShown
  /\ ~StartDisabled
  /\ runs < MaxRuns
  /\ IF appFiles = 0
       THEN /\ appError' = PleaseUpload
            /\ UNCHANGED <<isAnalyzing, analyses, runs>>
       ELSE /\ isAnalyzing' = TRUE
            /\ appError' = NoError
            /\ runs' = runs + 1
            /\ analyses' = analyses \cup {runs + 1}
  /\ UNCHANGED <<appFiles, results>>
  /\ UNCHANGED <<pipeVars, sanVars>>

\* the awaited analyzeProperty resolves: setResults(report), then finally
AnalysisResolves ==
  /\ \E r \in analyses :
       /\ results' = ReportOf(r)
       /\ analyses' = analyses \ {r}
  /\ isAnalyzing' = FALSE
  /\ UNCHANGED <<appFiles, appError, runs>>
  /\ UNCHANGED <<pipeVars, sanVars>>

\* The errors analyzeProperty rejects with on a non-empty file list: those
\* of a request, and in version 2 an exception of splitLargePdf.
RunFailureKinds ==
  FailureKinds \cup (IF version = 2 THEN {"SplitError"} ELSE {})

\* the awaited analyzeProperty rejects: setError(errorMsg), then finally
AnalysisRejects ==
  /\ \E r \in analyses, kind \in RunFailureKinds :
       /\ appError' = [kind |-> kind, call |-> r]
       /\ analyses' = analyses \ {r}
  /\ isAnalyzing' = FALSE
  /\ UNCHANGED <<appFiles, results, runs>>
  /\ UNCHANGED <<pipeVars, sanVars>>

\* {results && <button onClick={reset}>}: setResults(null); setFiles([])
Reset ==
  /\ ~FormShown
  /\ results' = NoResult
  /\ appFiles' = 0
  /\ UNCHANGED <<isAnalyzing, appError, analyses, runs>>
  /\ UNCHANGED <<pipeVars, sanVars>>

\* the component is mounted; no run of the pipeline is followed
AppInit ==
  /\ version \in Versions
  /\ files = <<>>
  /\ pc = "Splitting"
  /\ fileIdx = 1
  /\ splitPc = "idle"
  /\ totalPages = 0
  /\ splitI = 0
  /\ chunks = <<>>
  /\ splitResults = <<>>
  /\ allProcessedFiles = <<>>
  /\ batches = <<>>
  /\ batchI = 0
  /\ partialReports = <<>>
  /\ callLog = <<>>
  /\ inFlight = {}
  /\ result = NoResult
  /\ error = NoError
  /\ persona = "occupier"
  /\ returned = NoResponse
  /\ abandoned = FALSE
  /\ SanIdle
  /\ AppIdle

AppNext ==
  \/ OnFilesChange
  \/ SetPersona
  \/ ClickStart
  \/ AnalysisResolves
  \/ AnalysisRejects
  \/ Reset

AppSpec == AppInit /\ [][AppNext]_vars

\* C30: isAnalyzing is true exactly when an analyzeProperty call started by
\* handleStartAnalysis has not settled; the start button is disabled while
\* it is true; at most one call is in flight; results and error are never
\* both set.
C30_AnalyzingIffInFlight ==
  /\ isAnalyzing <=> analyses # {}
  /\ isAnalyzing => StartDisabled
  /\ Cardinality(analyses) <= 1
  /\ ~(results # NoResult /\ appError # NoError)

\* a second analysis is in flight after the first one was rejected
C30_Witness ==
  /\ isAnalyzing
  /\ runs >= 2
  /\ analyses = {runs}
  /\ appError = NoError
  /\ results = NoResult

====
